---- MODULE Spec2Model ----
(***************************************************************************)
(* Model of builder.Model (go-xamarin, builder/builder.go): project        *)
(* filtering, build command planning, command execution and cleanup.       *)
(***************************************************************************)
EXTENDS Integers, Sequences, FiniteSets, TLC

(* ------------------------------ bounds --------------------------------- *)

\* number of projects in solution.ProjectMap
NumProjects == 2

(* --------------------------- value domains ----------------------------- *)

ProjectTypeIOS == "ios"
ProjectTypeTvOS == "tvos"
ProjectTypeMacOS == "macos"
ProjectTypeAndroid == "android"
ProjectTypeUnknown == "unknown"

ProjectTypes ==
    {ProjectTypeIOS, ProjectTypeTvOS, ProjectTypeMacOS, ProjectTypeAndroid, ProjectTypeUnknown}

ProjectIds == 1..NumProjects

\* path of the solution file (solution.Pth)
SolutionPth == "App.sln"

\* the architecture lists a project configuration may carry (MtouchArchs)
SimulatorArchs == {"i386", "x86_64"}
ArchLists == {<<>>, <<"x86_64">>, <<"i386", "x86_64">>, <<"arm64">>, <<"arm64", "x86_64">>}

\* the (configuration, platform) pairs a caller may request
Requests == {<<"Release", "iPhone">>, <<"Debug", "iPhone">>}

\* the solution configurations the solution file declares (solution.ConfigMap)
DeclaredSolutionConfigs == {"Release|iPhone"}

(* --------------------------- pure helpers ------------------------------ *)

\* utility.ToConfig: "<Configuration>|<Platform>"
ToConfig(configuration, platform) == configuration \o "|" \o platform

\* the elements of a sequence
Range(s) == {s[i] : i \in 1..Len(s)}

\* isProjectTypeAllowed(projectType, whitelist...): membership in the
\* whitelist; what an empty whitelist means is a parameter of the model
\* (emptyAllowsAll), since both readings are possible.
isProjectTypeAllowed(projectType, whitelist, emptyAllowsAll) ==
    IF Len(whitelist) = 0 THEN emptyAllowsAll
    ELSE projectType \in Range(whitelist)

\* isArchitectureArchiveable(archs...): non-empty and not made of simulator
\* architectures only
isArchitectureArchiveable(archs) ==
    /\ Len(archs) > 0
    /\ \E i \in 1..Len(archs) : archs[i] \notin SimulatorArchs

\* strings.ToLower on the platform names of the model
ToLower(s) ==
    CASE s = "AnyCPU" -> "anycpu"
      [] s = "ANYCPU" -> "anycpu"
      [] s = "X86" -> "x86"
      [] s = "iPhone" -> "iphone"
      [] OTHER -> s

\* isPlatformAnyCPU(platform): case-insensitive comparison with "AnyCPU"
isPlatformAnyCPU(platform) == ToLower(platform) = ToLower("AnyCPU")

\* validateSolutionConfig(solution, configuration, platform): TRUE when the
\* solution declares the requested configuration
validateSolutionConfig(sol, configuration, platform) ==
    ToConfig(configuration, platform) \in sol.ConfigList

(* ----------------------------- commands -------------------------------- *)

\* mdtool.New(pth): a command of the IDE tool with nothing set
mdtoolNew(pth) ==
    [tool |-> "mdtool", pth |-> pth, target |-> "", configuration |-> "",
     platform |-> "", projectName |-> "", buildIpa |-> FALSE,
     archiveOnBuild |-> FALSE, customOptions |-> <<>>]

\* xbuild.New(pth): a command of the build engine with nothing set
xbuildNew(pth) ==
    [tool |-> "xbuild", pth |-> pth, target |-> "", configuration |-> "",
     platform |-> "", projectName |-> "", buildIpa |-> FALSE,
     archiveOnBuild |-> FALSE, customOptions |-> <<>>]

SetTarget(command, target) == [command EXCEPT !.target = target]
SetConfiguration(command, configuration) == [command EXCEPT !.configuration = configuration]
SetPlatform(command, platform) == [command EXCEPT !.platform = platform]
SetProjectName(command, name) == [command EXCEPT !.projectName = name]
SetBuildIpa(command, b) == [command EXCEPT !.buildIpa = b]
SetArchiveOnBuild(command, b) == [command EXCEPT !.archiveOnBuild = b]
SetCustomOptions(command, options) == [command EXCEPT !.customOptions = options]

\* the fields two commands are compared on: target action, toolchain,
\* configuration, platform and project name
CommandIdentity(command) ==
    <<command.tool, command.target, command.configuration, command.platform,
      command.projectName>>

CommandsEqual(c1, c2) == CommandIdentity(c1) = CommandIdentity(c2)

\* buildtool.BuildCommandSliceContains(cmdSlice, cmd)
BuildCommandSliceContains(cmdSlice, cmd) ==
    \E i \in 1..Len(cmdSlice) : CommandsEqual(cmdSlice[i], cmd)

(* ------------------------- command planning ---------------------------- *)

\* mutant: the archive command and the archive flags do not depend on the
\* architecture list, as for macOS
PlanIOS_AlwaysArchive(proj, projectConfig, force, configuration, platform) ==
    IF force
    THEN <<SetProjectName(SetPlatform(SetConfiguration(
             SetTarget(mdtoolNew(SolutionPth), "build"),
             projectConfig.Configuration), projectConfig.Platform), proj.Name),
           SetProjectName(SetPlatform(SetConfiguration(
             SetTarget(mdtoolNew(SolutionPth), "archive"),
             projectConfig.Configuration), projectConfig.Platform), proj.Name)>>
    ELSE <<SetArchiveOnBuild(SetBuildIpa(SetPlatform(SetConfiguration(
             SetTarget(xbuildNew(SolutionPth), "Build"),
             configuration), platform), TRUE), TRUE)>>

\* case ProjectTypeIOS, ProjectTypeTvOS of the switch in BuildAllProjects
PlanIOS(proj, projectConfig, force, configuration, platform) ==
    IF force
    THEN LET build == SetProjectName(SetPlatform(SetConfiguration(
                        SetTarget(mdtoolNew(SolutionPth), "build"),
                        projectConfig.Configuration), projectConfig.Platform), proj.Name)
             archive == SetProjectName(SetPlatform(SetConfiguration(
                        SetTarget(mdtoolNew(SolutionPth), "archive"),
                        projectConfig.Configuration), projectConfig.Platform), proj.Name)
         IN  IF isArchitectureArchiveable(projectConfig.MtouchArchs)
             THEN <<build, archive>>
             ELSE <<build>>
    ELSE LET command == SetPlatform(SetConfiguration(
                        SetTarget(xbuildNew(SolutionPth), "Build"),
                        configuration), platform)
         IN  IF isArchitectureArchiveable(projectConfig.MtouchArchs)
             THEN <<SetArchiveOnBuild(SetBuildIpa(command, TRUE), TRUE)>>
             ELSE <<command>>

\* mutant: the archive command depends on the architecture list, as for iOS
PlanMacOS_ArchiveIfArchivable(proj, projectConfig, force, configuration, platform) ==
    IF force
    THEN LET build == SetProjectName(SetPlatform(SetConfiguration(
                        SetTarget(mdtoolNew(SolutionPth), "build"),
                        projectConfig.Configuration), projectConfig.Platform), proj.Name)
             archive == SetProjectName(SetPlatform(SetConfiguration(
                        SetTarget(mdtoolNew(SolutionPth), "archive"),
                        projectConfig.Configuration), projectConfig.Platform), proj.Name)
         IN  IF isArchitectureArchiveable(projectConfig.MtouchArchs)
             THEN <<build, archive>>
             ELSE <<build>>
    ELSE <<SetArchiveOnBuild(SetPlatform(SetConfiguration(
             SetTarget(xbuildNew(SolutionPth), "Build"),
             configuration), platform), TRUE)>>

\* mutant: the second command of the forced toolchain is the build command again
PlanMacOS_BuildTwice(proj, projectConfig, force, configuration, platform) ==
    IF force
    THEN LET build == SetProjectName(SetPlatform(SetConfiguration(
                        SetTarget(mdtoolNew(SolutionPth), "build"),
                        projectConfig.Configuration), projectConfig.Platform), proj.Name)
         IN  <<build, build>>
    ELSE <<SetArchiveOnBuild(SetPlatform(SetConfiguration(
             SetTarget(xbuildNew(SolutionPth), "Build"),
             configuration), platform), TRUE)>>

\* case ProjectTypeMacOS of the switch in BuildAllProjects
PlanMacOS(proj, projectConfig, force, configuration, platform) ==
    IF force
    THEN LET build == SetProjectName(SetPlatform(SetConfiguration(
                        SetTarget(mdtoolNew(SolutionPth), "build"),
                        projectConfig.Configuration), projectConfig.Platform), proj.Name)
             archive == SetProjectName(SetPlatform(SetConfiguration(
                        SetTarget(mdtoolNew(SolutionPth), "archive"),
                        projectConfig.Configuration), projectConfig.Platform), proj.Name)
         IN  <<build, archive>>
    ELSE <<SetArchiveOnBuild(SetPlatform(SetConfiguration(
             SetTarget(xbuildNew(SolutionPth), "Build"),
             configuration), platform), TRUE)>>

\* mutant: the platform of the project is always passed on
PlanAndroid_PlatformAlwaysSet(proj, projectConfig) ==
    LET targeted == IF projectConfig.SignAndroid
                    THEN SetTarget(xbuildNew(proj.Pth), "SignAndroidPackage")
                    ELSE SetTarget(xbuildNew(proj.Pth), "PackageForAndroid")
        configured == SetConfiguration(targeted, projectConfig.Configuration)
    IN  <<SetPlatform(configured, projectConfig.Platform)>>

\* case ProjectTypeAndroid of the switch in BuildAllProjects
PlanAndroid(proj, projectConfig) ==
    LET targeted == IF projectConfig.SignAndroid
                    THEN SetTarget(xbuildNew(proj.Pth), "SignAndroidPackage")
                    ELSE SetTarget(xbuildNew(proj.Pth), "PackageForAndroid")
        configured == SetConfiguration(targeted, projectConfig.Configuration)
    IN  IF ~isPlatformAnyCPU(projectConfig.Platform)
        THEN <<SetPlatform(configured, projectConfig.Platform)>>
        ELSE <<configured>>

\* the switch on proj.ProjectType in BuildAllProjects: the build commands of
\* one project
PlanBuildCommands(proj, projectConfig, force, configuration, platform) ==
    CASE proj.ProjectType \in {ProjectTypeIOS, ProjectTypeTvOS} ->
            PlanIOS(proj, projectConfig, force, configuration, platform)
      [] proj.ProjectType = ProjectTypeMacOS ->
            PlanMacOS(proj, projectConfig, force, configuration, platform)
      [] proj.ProjectType = ProjectTypeAndroid ->
            PlanAndroid(proj, projectConfig)
      [] OTHER -> <<>>

(* ------------------------- the solution model -------------------------- *)

NameOf(id) == "P" \o ToString(id)
PthOf(id) == NameOf(id) \o "/" \o NameOf(id) \o ".csproj"

\* a project configuration (project.ConfigurationPlatformModel)
ProjectConfig(configuration, platform, archs, sign) ==
    [Configuration |-> configuration, Platform |-> platform, MtouchArchs |-> archs,
     SignAndroid |-> sign]

AppleConfig(archs) == ProjectConfig("Release", "iPhone", archs, FALSE)
AndroidConfig(platform, sign) == ProjectConfig("Release", platform, <<>>, sign)

\* a config mapping: no entry for the requested solution configuration, or
\* an entry naming the project configuration key
NoMapping == [k \in {"Debug|x86"} |-> "Debug|x86"]
Mapping == [k \in {"Release|iPhone"} |-> "Release|Any"]

\* the configurations of a project: none under the mapped key, or one
NoConfigs(cfg) == [k \in {"Debug|x86"} |-> cfg]
OneConfig(cfg) == [k \in {"Release|Any"} |-> cfg]

\* what a project file says, apart from the identity of the project
Shape(type, out, app, configMap, configs) ==
    [ProjectType |-> type, OutputType |-> out, AndroidApplication |-> app,
     ConfigMap |-> configMap, Configs |-> configs]

\* project.Model: the project with the given id and shape
Project(id, shape) ==
    [ID |-> id, Name |-> NameOf(id), Pth |-> PthOf(id),
     ProjectType |-> shape.ProjectType, OutputType |-> shape.OutputType,
     AndroidApplication |-> shape.AndroidApplication,
     ConfigMap |-> shape.ConfigMap, Configs |-> shape.Configs]

\* the project shapes of the solutions of Spec
Shapes ==
    << Shape(ProjectTypeIOS, "library", FALSE, NoMapping, NoConfigs(AppleConfig(<<"arm64">>))),
       Shape(ProjectTypeIOS, "library", FALSE, Mapping, OneConfig(AppleConfig(<<"arm64">>))),
       Shape(ProjectTypeIOS, "exe", FALSE, Mapping, NoConfigs(AppleConfig(<<"arm64">>))),
       Shape(ProjectTypeIOS, "exe", FALSE, Mapping, OneConfig(AppleConfig(<<>>))),
       Shape(ProjectTypeIOS, "exe", FALSE, Mapping, OneConfig(AppleConfig(<<"x86_64">>))),
       Shape(ProjectTypeIOS, "exe", FALSE, Mapping, OneConfig(AppleConfig(<<"arm64">>))),
       Shape(ProjectTypeTvOS, "library", FALSE, Mapping, OneConfig(AppleConfig(<<"arm64">>))),
       Shape(ProjectTypeTvOS, "exe", FALSE, Mapping, OneConfig(AppleConfig(<<"x86_64">>))),
       Shape(ProjectTypeTvOS, "exe", FALSE, Mapping, OneConfig(AppleConfig(<<"arm64">>))),
       Shape(ProjectTypeMacOS, "library", FALSE, Mapping, OneConfig(AppleConfig(<<>>))),
       Shape(ProjectTypeMacOS, "exe", FALSE, Mapping, OneConfig(AppleConfig(<<>>))),
       Shape(ProjectTypeAndroid, "library", TRUE, NoMapping, NoConfigs(AndroidConfig("AnyCPU", FALSE))),
       Shape(ProjectTypeAndroid, "library", FALSE, Mapping, OneConfig(AndroidConfig("AnyCPU", FALSE))),
       Shape(ProjectTypeAndroid, "library", TRUE, Mapping, NoConfigs(AndroidConfig("AnyCPU", FALSE))),
       Shape(ProjectTypeAndroid, "library", TRUE, Mapping, OneConfig(AndroidConfig("AnyCPU", FALSE))),
       Shape(ProjectTypeAndroid, "library", TRUE, Mapping, OneConfig(AndroidConfig("x86", TRUE))),
       Shape(ProjectTypeUnknown, "exe", TRUE, Mapping, OneConfig(AppleConfig(<<"arm64">>))) >>

\* the project shapes of the solutions of SpecClean: one buildable shape of
\* each project type, and an unknown one without mapping
CleanShapes ==
    << Shape(ProjectTypeIOS, "exe", FALSE, Mapping, OneConfig(AppleConfig(<<"arm64">>))),
       Shape(ProjectTypeTvOS, "exe", FALSE, Mapping, OneConfig(AppleConfig(<<"arm64">>))),
       Shape(ProjectTypeMacOS, "exe", FALSE, Mapping, OneConfig(AppleConfig(<<"arm64">>))),
       Shape(ProjectTypeAndroid, "library", TRUE, Mapping, OneConfig(AndroidConfig("AnyCPU", FALSE))),
       Shape(ProjectTypeUnknown, "exe", TRUE, Mapping, OneConfig(AppleConfig(<<"arm64">>))),
       Shape(ProjectTypeUnknown, "library", FALSE, NoMapping, NoConfigs(AppleConfig(<<"arm64">>))) >>

\* the project shapes of the solutions of SpecCollect: buildable shapes with
\* and without the project configuration their mapping names, and a library
CollectShapes ==
    << Shape(ProjectTypeIOS, "exe", FALSE, Mapping, NoConfigs(AppleConfig(<<"arm64">>))),
       Shape(ProjectTypeIOS, "exe", FALSE, Mapping, OneConfig(AppleConfig(<<"arm64">>))),
       Shape(ProjectTypeIOS, "library", FALSE, Mapping, OneConfig(AppleConfig(<<"arm64">>))),
       Shape(ProjectTypeMacOS, "exe", FALSE, Mapping, OneConfig(AppleConfig(<<>>))),
       Shape(ProjectTypeAndroid, "library", TRUE, Mapping, OneConfig(AndroidConfig("AnyCPU", FALSE))) >>

\* the project maps over the given shapes. A range over a Go map visits the
\* projects in any order (Orders), so project maps that differ in the naming
\* of the projects only are not told apart: the shapes are laid out in
\* non-decreasing order of their index.
ProjectMaps(shapes) ==
    {[i \in ProjectIds |-> Project(i, shapes[f[i]])] :
        f \in {g \in [ProjectIds -> 1..Len(shapes)] :
                  \A i, j \in ProjectIds : i < j => g[i] <= g[j]}}

\* solution.Model over the given shapes
Solutions(shapes) ==
    {[Pth |-> SolutionPth, ProjectMap |-> pm, ConfigList |-> DeclaredSolutionConfigs] :
        pm \in ProjectMaps(shapes)}

\* the whitelists a builder may be made with (New)
Whitelists ==
    { <<>>,
      <<ProjectTypeIOS, ProjectTypeTvOS, ProjectTypeMacOS, ProjectTypeAndroid, ProjectTypeUnknown>>,
      <<ProjectTypeAndroid, ProjectTypeUnknown>> }

\* the orders in which a range over solution.ProjectMap may visit the projects
Orders ==
    {o \in [1..NumProjects -> ProjectIds] : \A i, j \in 1..NumProjects : i # j => o[i] # o[j]}

(* ------------------------------- state --------------------------------- *)

VARIABLES
    solution,             \* builder.solution: [Pth, ProjectMap, ConfigList]
    projectTypeWhitelist, \* builder.projectTypeWhitelist
    forceMDTool,          \* builder.forceMDTool
    emptyAllowsAll,       \* what isProjectTypeAllowed answers for an empty whitelist
    pc,                   \* position of the running call
    args,                 \* arguments of the running call
    projects,             \* the slice the running call ranges over
    idx,                  \* index of the current project in projects
    dir,                  \* CleanAll: the directory at hand, "bin" or "obj"
    warnings,             \* BuildAllProjects: warnings
    buildCommands,        \* BuildAllProjects: buildCommands of the current project
    cmdIdx,               \* BuildAllProjects: index of the current command
    perfomedCommands,     \* BuildAllProjects: perfomedCommands
    alreadyPerformed,     \* BuildAllProjects: alreadyPerformed of the current command
    removed,              \* CleanAll: the directories os.RemoveAll removed
    ret,                  \* what the call returned
    events,               \* callbacks, Run calls and file system calls, in order
    plan,                 \* planning of one project on its own (SpecPlan)
    outputMap,            \* CollectOutput: outputMap
    projectTypeOutputMap, \* CollectOutput: projectTypeOutputMap of the current project
    probeIdx              \* CollectOutput: index of the current probe of the project

vars == <<solution, projectTypeWhitelist, forceMDTool, emptyAllowsAll, pc, args,
          projects, idx, dir, warnings, buildCommands, cmdIdx, perfomedCommands,
          alreadyPerformed, removed, ret, events, plan, outputMap,
          projectTypeOutputMap, probeIdx>>

collectVars == <<outputMap, projectTypeOutputMap, probeIdx>>

builderVars == <<solution, projectTypeWhitelist, forceMDTool, emptyAllowsAll>>

\* a map without keys: OutputMap{}, map[constants.OutputType]string{}
EmptyMap == [k \in {} |-> ""]

NoArgs == [op |-> "none"]
NoRet == [returned |-> FALSE, warnings |-> <<>>, err |-> "nil"]

(* ------------------------- project filtering --------------------------- *)

\* the projects of solution.ProjectMap in the order a range visits them
RangeProjectMap(order) == [i \in 1..NumProjects |-> solution.ProjectMap[order[i]]]

\* mutant: the type Unknown is not told apart
IsFiltered_UnknownKept(proj) ==
    isProjectTypeAllowed(proj.ProjectType, projectTypeWhitelist, emptyAllowsAll)

\* the test of the loop body of filteredProjects
IsFiltered(proj) ==
    /\ isProjectTypeAllowed(proj.ProjectType, projectTypeWhitelist, emptyAllowsAll)
    /\ proj.ProjectType # ProjectTypeUnknown

\* builder.filteredProjects()
filteredProjects(order) == SelectSeq(RangeProjectMap(order), IsFiltered)

\* mutant: the output type is tested for iOS and macOS projects only
Eligibility_TvOSForgotten(proj, solutionConfig) ==
    IF solutionConfig \notin DOMAIN proj.ConfigMap THEN "noSolutionConfig"
    ELSE IF /\ proj.ProjectType \in {ProjectTypeIOS, ProjectTypeMacOS}
            /\ proj.OutputType # "exe" THEN "notArchivable"
    ELSE IF proj.ProjectType = ProjectTypeAndroid /\ ~proj.AndroidApplication
         THEN "notAndroidApp"
    ELSE IF proj.ProjectType # ProjectTypeUnknown THEN "buildable"
    ELSE "unknown"

\* mutant: the application flag of an Android project is not tested
Eligibility_AndroidFlagForgotten(proj, solutionConfig) ==
    IF solutionConfig \notin DOMAIN proj.ConfigMap THEN "noSolutionConfig"
    ELSE IF /\ proj.ProjectType \in {ProjectTypeIOS, ProjectTypeMacOS, ProjectTypeTvOS}
            /\ proj.OutputType # "exe" THEN "notArchivable"
    ELSE IF proj.ProjectType # ProjectTypeUnknown THEN "buildable"
    ELSE "unknown"

\* mutant: a project without mapping is dropped without a warning
Eligibility_SilentSkip(proj, solutionConfig) ==
    IF solutionConfig \notin DOMAIN proj.ConfigMap THEN "unknown"
    ELSE IF /\ proj.ProjectType \in {ProjectTypeIOS, ProjectTypeMacOS, ProjectTypeTvOS}
            /\ proj.OutputType # "exe" THEN "notArchivable"
    ELSE IF proj.ProjectType = ProjectTypeAndroid /\ ~proj.AndroidApplication
         THEN "notAndroidApp"
    ELSE IF proj.ProjectType # ProjectTypeUnknown THEN "buildable"
    ELSE "unknown"

\* the loop body of buildableProjects: "buildable", or the warning emitted,
\* or "unknown" for a project dropped without a warning
Eligibility(proj, solutionConfig) ==
    IF solutionConfig \notin DOMAIN proj.ConfigMap THEN "noSolutionConfig"
    ELSE IF /\ proj.ProjectType \in {ProjectTypeIOS, ProjectTypeMacOS, ProjectTypeTvOS}
            /\ proj.OutputType # "exe" THEN "notArchivable"
    ELSE IF proj.ProjectType = ProjectTypeAndroid /\ ~proj.AndroidApplication
         THEN "notAndroidApp"
    ELSE IF proj.ProjectType # ProjectTypeUnknown THEN "buildable"
    ELSE "unknown"

WarningKinds == {"noSolutionConfig", "notArchivable", "notAndroidApp"}

Warning(kind, proj) == [kind |-> kind, project |-> proj.Name]

\* the warnings a sequence of projects gets from buildableProjects
RECURSIVE WarningsOf(_, _)
WarningsOf(projs, solutionConfig) ==
    IF Len(projs) = 0 THEN <<>>
    ELSE LET e == Eligibility(Head(projs), solutionConfig)
             rest == WarningsOf(Tail(projs), solutionConfig)
         IN  IF e \in WarningKinds THEN <<Warning(e, Head(projs))>> \o rest ELSE rest

\* builder.buildableProjects(configuration, platform)
buildableProjects(order, configuration, platform) ==
    LET solutionConfig == ToConfig(configuration, platform)
        filtered == filteredProjects(order)
        IsBuildable(proj) == Eligibility(proj, solutionConfig) = "buildable"
    IN  [projects |-> SelectSeq(filtered, IsBuildable),
         warnings |-> WarningsOf(filtered, solutionConfig)]

(* --------------------------- BuildAllProjects -------------------------- *)

Event(kind, proj, what, flag) ==
    [kind |-> kind, project |-> proj.Name, what |-> what, flag |-> flag]

Return(w, err) == [returned |-> TRUE, warnings |-> w, err |-> err]

\* return []string{}, err: the requested configuration is not declared
ReturnOnInvalidConfig(w) == Return(<<>>, "invalidSolutionConfig")

\* mutant: the warnings are dropped, as they are for an undeclared configuration
ReturnOnRunError_NoWarnings(w) == Return(<<>>, "runFailed")

\* return warnings, err: a command failed to run
ReturnOnRunError(w) == Return(w, "runFailed")

\* perfomedCommands := []buildtool.RunnableCommand{} in the body of the loop
\* over the buildable projects: the list the commands of a project start with
PerformedAtProjectStart(performed) == <<>>

\* mutant: the command is recorded whether or not its Run succeeded
PerformedAfterRun_Always(performed, command, ok) == Append(performed, command)

\* perfomedCommands after buildCommand.Run() returned
PerformedAfterRun(performed, command, ok) ==
    IF ok THEN Append(performed, command) ELSE performed

\* the callback may edit the command through buildtool.EditableCommand
PreparedCommand(command, prepareCallback) ==
    IF prepareCallback = "edit" THEN SetCustomOptions(command, <<"/verbosity">>)
    ELSE command

\* the next position once the current command is dealt with
AfterCommand ==
    IF cmdIdx < Len(buildCommands)
    THEN /\ cmdIdx' = cmdIdx + 1
         /\ pc' = "prepare"
         /\ idx' = idx
    ELSE /\ cmdIdx' = 1
         /\ pc' = "project"
         /\ idx' = idx + 1

\* mutant: the requested configuration is not validated
BuildAllProjects_NoValidation(configuration, platform, prepareCallback, callback, order) ==
    /\ pc = "idle"
    /\ args' = [op |-> "BuildAllProjects", configuration |-> configuration,
                platform |-> platform, prepareCallback |-> prepareCallback,
                callback |-> callback, order |-> order]
    /\ LET b == buildableProjects(order, configuration, platform)
       IN  /\ projects' = b.projects
           /\ warnings' = b.warnings
           /\ IF Len(b.projects) = 0
              THEN /\ ret' = Return(b.warnings, "nil")
                   /\ pc' = "done"
              ELSE /\ ret' = ret
                   /\ pc' = "project"
    /\ idx' = 1
    /\ UNCHANGED <<builderVars, buildCommands, cmdIdx, perfomedCommands,
                   alreadyPerformed, removed, dir, events, plan, collectVars>>

\* BuildAllProjects up to the loop over the buildable projects
BuildAllProjects(configuration, platform, prepareCallback, callback, order) ==
    /\ pc = "idle"
    /\ args' = [op |-> "BuildAllProjects", configuration |-> configuration,
                platform |-> platform, prepareCallback |-> prepareCallback,
                callback |-> callback, order |-> order]
    /\ IF ~validateSolutionConfig(solution, configuration, platform)
       THEN /\ ret' = ReturnOnInvalidConfig(warnings)
            /\ pc' = "done"
            /\ UNCHANGED <<projects, warnings>>
       ELSE LET b == buildableProjects(order, configuration, platform)
            IN  /\ projects' = b.projects
                /\ warnings' = b.warnings
                /\ IF Len(b.projects) = 0
                   THEN /\ ret' = Return(b.warnings, "nil")
                        /\ pc' = "done"
                   ELSE /\ ret' = ret
                        /\ pc' = "project"
    /\ idx' = 1
    /\ UNCHANGED <<builderVars, buildCommands, cmdIdx, perfomedCommands,
                   alreadyPerformed, removed, dir, events, plan, collectVars>>

\* the head of the loop body: resolve the project configuration and prepare
\* the build commands of the project
NextProject ==
    /\ pc = "project"
    /\ idx <= Len(projects)
    /\ LET proj == projects[idx]
           solutionConfig == ToConfig(args.configuration, args.platform)
       IN  IF solutionConfig \notin DOMAIN proj.ConfigMap
           THEN /\ warnings' = Append(warnings, Warning("noSolutionConfig", proj))
                /\ idx' = idx + 1
                /\ UNCHANGED <<pc, buildCommands, cmdIdx, perfomedCommands>>
           ELSE IF proj.ConfigMap[solutionConfig] \notin DOMAIN proj.Configs
           THEN /\ warnings' = Append(warnings, Warning("noProjectConfig", proj))
                /\ idx' = idx + 1
                /\ UNCHANGED <<pc, buildCommands, cmdIdx, perfomedCommands>>
           ELSE LET projectConfig == proj.Configs[proj.ConfigMap[solutionConfig]]
                    commands == PlanBuildCommands(proj, projectConfig, forceMDTool,
                                                  args.configuration, args.platform)
                IN  /\ buildCommands' = commands
                    /\ perfomedCommands' = PerformedAtProjectStart(perfomedCommands)
                    /\ cmdIdx' = 1
                    /\ warnings' = warnings
                    /\ IF Len(commands) = 0
                       THEN pc' = "project" /\ idx' = idx + 1
                       ELSE pc' = "prepare" /\ idx' = idx
    /\ UNCHANGED <<builderVars, args, projects, alreadyPerformed, removed, dir, ret,
                   events, plan, collectVars>>

\* prepareCallback(proj, &editabeCommand)
PrepareCommand ==
    /\ pc = "prepare"
    /\ IF args.prepareCallback # "nil"
       THEN /\ events' = Append(events,
                   Event("prepare", projects[idx], buildCommands[cmdIdx], FALSE))
            /\ buildCommands' = [buildCommands EXCEPT
                   ![cmdIdx] = PreparedCommand(@, args.prepareCallback)]
       ELSE UNCHANGED <<events, buildCommands>>
    /\ pc' = "check"
    /\ UNCHANGED <<builderVars, args, projects, idx, warnings, cmdIdx,
                   perfomedCommands, alreadyPerformed, removed, dir, ret, plan, collectVars>>

\* alreadyPerformed := BuildCommandSliceContains(perfomedCommands, buildCommand)
CheckPerformed ==
    /\ pc = "check"
    /\ alreadyPerformed' = BuildCommandSliceContains(perfomedCommands, buildCommands[cmdIdx])
    /\ pc' = "observe"
    /\ UNCHANGED <<builderVars, args, projects, idx, warnings, buildCommands, cmdIdx,
                   perfomedCommands, removed, dir, ret, events, plan, collectVars>>

\* mutant: the command is run before the callback is told about it
ObserveCommand_AfterRun ==
    /\ pc = "observe"
    /\ IF alreadyPerformed
       THEN /\ AfterCommand
            /\ events' = IF args.callback # "nil"
                          THEN Append(events, Event("observe", projects[idx],
                                                    buildCommands[cmdIdx], alreadyPerformed))
                          ELSE events
       ELSE /\ pc' = "running"
            /\ UNCHANGED <<idx, cmdIdx>>
            /\ events' = IF args.callback # "nil"
                          THEN events \o
                               <<Event("run", projects[idx], buildCommands[cmdIdx], FALSE),
                                 Event("observe", projects[idx], buildCommands[cmdIdx], FALSE)>>
                          ELSE Append(events,
                                      Event("run", projects[idx], buildCommands[cmdIdx], FALSE))
    /\ UNCHANGED <<builderVars, args, projects, warnings, buildCommands,
                   perfomedCommands, alreadyPerformed, removed, dir, ret, plan, collectVars>>

\* callback(proj, buildCommand, alreadyPerformed), then the test of
\* alreadyPerformed
ObserveCommand ==
    /\ pc = "observe"
    /\ IF args.callback # "nil"
       THEN events' = Append(events,
               Event("observe", projects[idx], buildCommands[cmdIdx], alreadyPerformed))
       ELSE events' = events
    /\ IF alreadyPerformed
       THEN AfterCommand
       ELSE pc' = "run" /\ UNCHANGED <<idx, cmdIdx>>
    /\ UNCHANGED <<builderVars, args, projects, warnings, buildCommands,
                   perfomedCommands, alreadyPerformed, removed, dir, ret, plan, collectVars>>

\* buildCommand.Run() is called
RunCommand ==
    /\ pc = "run"
    /\ events' = Append(events, Event("run", projects[idx], buildCommands[cmdIdx], FALSE))
    /\ pc' = "running"
    /\ UNCHANGED <<builderVars, args, projects, idx, warnings, buildCommands, cmdIdx,
                   perfomedCommands, alreadyPerformed, removed, dir, ret, plan, collectVars>>

\* mutant: the error of Run is ignored and the pass goes on
RunReturns_IgnoreError(ok) ==
    /\ pc = "running"
    /\ events' = Append(events, Event("ran", projects[idx], buildCommands[cmdIdx], ok))
    /\ perfomedCommands' = PerformedAfterRun(perfomedCommands, buildCommands[cmdIdx], ok)
    /\ AfterCommand
    /\ ret' = ret
    /\ UNCHANGED <<builderVars, args, projects, warnings, buildCommands,
                   alreadyPerformed, removed, dir, plan, collectVars>>

\* buildCommand.Run() returns: nil (ok) or an error
RunReturns(ok) ==
    /\ pc = "running"
    /\ events' = Append(events, Event("ran", projects[idx], buildCommands[cmdIdx], ok))
    /\ perfomedCommands' = PerformedAfterRun(perfomedCommands, buildCommands[cmdIdx], ok)
    /\ IF ok
       THEN AfterCommand /\ ret' = ret
       ELSE /\ ret' = ReturnOnRunError(warnings)
            /\ pc' = "done"
            /\ UNCHANGED <<idx, cmdIdx>>
    /\ UNCHANGED <<builderVars, args, projects, warnings, buildCommands,
                   alreadyPerformed, removed, dir, plan, collectVars>>

\* the loop over the buildable projects is over: return warnings, nil
BuildReturns ==
    /\ pc = "project"
    /\ args.op = "BuildAllProjects"
    /\ idx > Len(projects)
    /\ ret' = Return(warnings, "nil")
    /\ pc' = "done"
    /\ UNCHANGED <<builderVars, args, projects, idx, warnings, buildCommands, cmdIdx,
                   perfomedCommands, alreadyPerformed, removed, dir, events, plan, collectVars>>

(* ------------------------------- CleanAll ------------------------------ *)

\* filepath.Join(filepath.Dir(proj.Pth), dir)
DirPth(proj, d) == proj.Name \o "/" \o d

DirEvent(kind, proj, d, flag) ==
    [kind |-> kind, project |-> proj.Name, what |-> DirPth(proj, d), flag |-> flag]

\* the next position once a directory is dealt with
AfterDir ==
    IF dir = "bin"
    THEN dir' = "obj" /\ idx' = idx
    ELSE dir' = "bin" /\ idx' = idx + 1

\* CleanAll up to the loop over the filtered projects
CleanAll(callback, order) ==
    /\ pc = "idle"
    /\ args' = [op |-> "CleanAll", configuration |-> "", platform |-> "",
                prepareCallback |-> "nil", callback |-> callback, order |-> order]
    /\ projects' = filteredProjects(order)
    /\ idx' = 1
    /\ dir' = "bin"
    /\ pc' = "stat"
    /\ UNCHANGED <<builderVars, warnings, buildCommands, cmdIdx, perfomedCommands,
                   alreadyPerformed, removed, ret, events, plan, collectVars>>

\* mutant: the callback is called whether or not the directory exists
StatDir_CallbackAlways(answer) ==
    /\ pc = "stat"
    /\ idx <= Len(projects)
    /\ LET proj == projects[idx]
           stat == DirEvent("stat", proj, dir, answer = "exists")
           clear == DirEvent("clear", proj, dir, TRUE)
       IN  CASE answer = "error" ->
                    /\ events' = Append(events, DirEvent("statError", proj, dir, FALSE))
                    /\ ret' = Return(<<>>, "statFailed")
                    /\ pc' = "done"
                    /\ UNCHANGED <<idx, dir>>
              [] answer = "absent" ->
                    /\ events' = IF args.callback # "nil"
                                 THEN events \o <<stat, clear>>
                                 ELSE Append(events, stat)
                    /\ AfterDir
                    /\ UNCHANGED <<pc, ret>>
              [] answer = "exists" ->
                    /\ events' = IF args.callback # "nil"
                                 THEN events \o <<stat, clear>>
                                 ELSE Append(events, stat)
                    /\ pc' = "remove"
                    /\ UNCHANGED <<idx, dir, ret>>
    /\ UNCHANGED <<builderVars, args, projects, warnings, buildCommands, cmdIdx,
                   perfomedCommands, alreadyPerformed, removed, plan, collectVars>>

\* pathutil.IsDirExists(pth) answers, and the callback is called for a
\* directory that exists
StatDir(answer) ==
    /\ pc = "stat"
    /\ idx <= Len(projects)
    /\ LET proj == projects[idx]
           stat == DirEvent("stat", proj, dir, answer = "exists")
           clear == DirEvent("clear", proj, dir, TRUE)
       IN  CASE answer = "error" ->
                    /\ events' = Append(events, DirEvent("statError", proj, dir, FALSE))
                    /\ ret' = Return(<<>>, "statFailed")
                    /\ pc' = "done"
                    /\ UNCHANGED <<idx, dir>>
              [] answer = "absent" ->
                    /\ events' = Append(events, stat)
                    /\ AfterDir
                    /\ UNCHANGED <<pc, ret>>
              [] answer = "exists" ->
                    /\ events' = IF args.callback # "nil"
                                 THEN events \o <<stat, clear>>
                                 ELSE Append(events, stat)
                    /\ pc' = "remove"
                    /\ UNCHANGED <<idx, dir, ret>>
    /\ UNCHANGED <<builderVars, args, projects, warnings, buildCommands, cmdIdx,
                   perfomedCommands, alreadyPerformed, removed, plan, collectVars>>

\* mutant: the error of os.RemoveAll is ignored and the sweep goes on
RemoveDir_IgnoreError(ok) ==
    /\ pc = "remove"
    /\ events' = Append(events, DirEvent("remove", projects[idx], dir, ok))
    /\ removed' = IF ok THEN removed \cup {DirPth(projects[idx], dir)} ELSE removed
    /\ AfterDir
    /\ pc' = "stat"
    /\ ret' = ret
    /\ UNCHANGED <<builderVars, args, projects, warnings, buildCommands, cmdIdx,
                   perfomedCommands, alreadyPerformed, plan, collectVars>>

\* os.RemoveAll(pth) returns: nil (ok) or an error
RemoveDir(ok) ==
    /\ pc = "remove"
    /\ events' = Append(events, DirEvent("remove", projects[idx], dir, ok))
    /\ IF ok
       THEN /\ removed' = removed \cup {DirPth(projects[idx], dir)}
            /\ AfterDir
            /\ pc' = "stat"
            /\ ret' = ret
       ELSE /\ ret' = Return(<<>>, "removeFailed")
            /\ pc' = "done"
            /\ UNCHANGED <<removed, idx, dir>>
    /\ UNCHANGED <<builderVars, args, projects, warnings, buildCommands, cmdIdx,
                   perfomedCommands, alreadyPerformed, plan, collectVars>>

\* the loop over the filtered projects is over: return nil
CleanReturns ==
    /\ pc = "stat"
    /\ idx > Len(projects)
    /\ ret' = Return(<<>>, "nil")
    /\ pc' = "done"
    /\ UNCHANGED <<builderVars, args, projects, idx, dir, warnings, buildCommands,
                   cmdIdx, perfomedCommands, alreadyPerformed, removed, events, plan, collectVars>>

(* ----------------------------- CollectOutput --------------------------- *)

OutputTypeXCArchive == "xcarchive"
OutputTypeIPA == "ipa"
OutputTypeDSYM == "dsym"
OutputTypeAPP == "app"
OutputTypePKG == "pkg"
OutputTypeAPK == "apk"

\* the reading of the Android manifest: it gives the package name, no artifact
ManifestRead == "manifest"

\* what a probe answers: a path, nothing or an error
ProbeAnswers == {"found", "empty", "error"}

\* m[k] = v
Put(m, k, v) == [x \in DOMAIN m \cup {k} |-> IF x = k THEN v ELSE m[x]]

\* the probes of a project, in the order of the switch in CollectOutput
Probes(proj, force) ==
    CASE proj.ProjectType \in {ProjectTypeIOS, ProjectTypeTvOS} ->
            <<OutputTypeXCArchive, OutputTypeIPA, OutputTypeDSYM>>
      [] proj.ProjectType = ProjectTypeMacOS ->
            IF force THEN <<OutputTypeXCArchive, OutputTypeAPP, OutputTypePKG>>
            ELSE <<OutputTypeAPP, OutputTypePKG>>
      [] proj.ProjectType = ProjectTypeAndroid ->
            <<ManifestRead, OutputTypeAPK>>
      [] OTHER -> <<>>

\* the path a probe of the project finds: it is looked up with the assembly
\* name, the output directory or the package name of the project
FoundPth(proj, kind) == proj.Name \o "." \o kind

\* the path a probe gives for an answer without error
ProbePth(proj, kind, answer) == IF answer = "found" THEN FoundPth(proj, kind) ELSE ""

\* the error a failed probe gives
ProbeError(kind) == IF kind = ManifestRead THEN "manifestFailed" ELSE "probeFailed"

\* mutant: the project configuration is not looked for
CollectSkips_MappingOnly(proj, solutionConfig) ==
    solutionConfig \notin DOMAIN proj.ConfigMap

\* the two continue statements at the head of the loop body of CollectOutput
CollectSkips(proj, solutionConfig) ==
    \/ solutionConfig \notin DOMAIN proj.ConfigMap
    \/ proj.ConfigMap[solutionConfig] \notin DOMAIN proj.Configs

\* projectTypeOutputMap, ok := outputMap[proj.ProjectType], and a new map
\* when there is none
InnerMapAtStart(m, type) == IF type \in DOMAIN m THEN m[type] ELSE EmptyMap

\* } else if pth != "" { projectTypeOutputMap[kind] = pth }
AfterProbe(typeMap, kind, pth) ==
    IF kind # ManifestRead /\ pth # "" THEN Put(typeMap, kind, pth) ELSE typeMap

\* a Go map is a reference: when projectTypeOutputMap was taken from
\* outputMap, a write to it is a write to the entry of outputMap
WriteThrough(m, type, typeMap) ==
    IF type \in DOMAIN m THEN Put(m, type, typeMap) ELSE m

\* mutant: the inner map is stored whether or not it has an entry
AfterProject_Always(m, type, typeMap) == Put(m, type, typeMap)

\* if len(projectTypeOutputMap) > 0 { outputMap[proj.ProjectType] = projectTypeOutputMap }
AfterProject(m, type, typeMap) ==
    IF Cardinality(DOMAIN typeMap) > 0 THEN Put(m, type, typeMap) ELSE m

ReturnMap(m, err) ==
    [returned |-> TRUE, warnings |-> <<>>, err |-> err, outputMap |-> m]

\* mutant: what was collected before the error is returned with it
ReturnOnProbeError_KeepsMap(m, err) == ReturnMap(m, err)

\* return OutputMap{}, err
ReturnOnProbeError(m, err) == ReturnMap(EmptyMap, err)

\* CollectOutput up to the loop over the buildable projects
CollectOutput(configuration, platform, order) ==
    /\ pc = "idle"
    /\ args' = [op |-> "CollectOutput", configuration |-> configuration,
                platform |-> platform, prepareCallback |-> "nil",
                callback |-> "nil", order |-> order]
    /\ projects' = buildableProjects(order, configuration, platform).projects
    /\ outputMap' = EmptyMap
    /\ idx' = 1
    /\ pc' = "collect"
    /\ UNCHANGED <<builderVars, dir, warnings, buildCommands, cmdIdx, perfomedCommands,
                   alreadyPerformed, removed, ret, events, plan, projectTypeOutputMap,
                   probeIdx>>

\* the head of the loop body: resolve the project configuration and take
\* the inner map of the project type
CollectProject ==
    /\ pc = "collect"
    /\ idx <= Len(projects)
    /\ LET proj == projects[idx]
           solutionConfig == ToConfig(args.configuration, args.platform)
           typeMap == InnerMapAtStart(outputMap, proj.ProjectType)
       IN  IF CollectSkips(proj, solutionConfig)
           THEN /\ idx' = idx + 1
                /\ UNCHANGED <<pc, collectVars>>
           ELSE /\ projectTypeOutputMap' = typeMap
                /\ probeIdx' = 1
                /\ IF Len(Probes(proj, forceMDTool)) = 0
                   THEN /\ outputMap' = AfterProject(outputMap, proj.ProjectType, typeMap)
                        /\ idx' = idx + 1
                        /\ pc' = pc
                   ELSE /\ pc' = "probe"
                        /\ UNCHANGED <<idx, outputMap>>
    /\ UNCHANGED <<builderVars, args, projects, dir, warnings, buildCommands, cmdIdx,
                   perfomedCommands, alreadyPerformed, removed, ret, events, plan>>

\* a probe of the current project answers
ProbeReturns(answer) ==
    /\ pc = "probe"
    /\ LET proj == projects[idx]
           probes == Probes(proj, forceMDTool)
           kind == probes[probeIdx]
           typeMap == AfterProbe(projectTypeOutputMap, kind, ProbePth(proj, kind, answer))
           written == WriteThrough(outputMap, proj.ProjectType, typeMap)
       IN  IF answer = "error"
           THEN /\ events' = Append(events, Event("probeError", proj, kind, FALSE))
                /\ ret' = ReturnOnProbeError(outputMap, ProbeError(kind))
                /\ pc' = "done"
                /\ UNCHANGED <<idx, collectVars>>
           ELSE /\ events' = Append(events, Event("probe", proj, kind, answer = "found"))
                /\ projectTypeOutputMap' = typeMap
                /\ ret' = ret
                /\ IF probeIdx < Len(probes)
                   THEN /\ probeIdx' = probeIdx + 1
                        /\ outputMap' = written
                        /\ UNCHANGED <<pc, idx>>
                   ELSE /\ probeIdx' = 1
                        /\ outputMap' = AfterProject(written, proj.ProjectType, typeMap)
                        /\ idx' = idx + 1
                        /\ pc' = "collect"
    /\ UNCHANGED <<builderVars, args, projects, dir, warnings, buildCommands, cmdIdx,
                   perfomedCommands, alreadyPerformed, removed, plan>>

\* the loop over the buildable projects is over: return outputMap, nil
CollectReturns ==
    /\ pc = "collect"
    /\ idx > Len(projects)
    /\ ret' = ReturnMap(outputMap, "nil")
    /\ pc' = "done"
    /\ UNCHANGED <<builderVars, args, projects, idx, dir, warnings, buildCommands,
                   cmdIdx, perfomedCommands, alreadyPerformed, removed, events, plan,
                   collectVars>>

(* ---------------------------- specification ---------------------------- *)

NoPlan == [state |-> "none"]

\* no call made yet
Idle ==
    /\ pc = "idle"
    /\ args = NoArgs
    /\ projects = <<>>
    /\ idx = 1
    /\ dir = "bin"
    /\ warnings = <<>>
    /\ buildCommands = <<>>
    /\ cmdIdx = 1
    /\ perfomedCommands = <<>>
    /\ alreadyPerformed = FALSE
    /\ removed = {}
    /\ ret = NoRet
    /\ events = <<>>
    /\ outputMap = EmptyMap
    /\ projectTypeOutputMap = EmptyMap
    /\ probeIdx = 1

\* New(solutionPth, projectTypeWhitelist, forceMDTool) over a loaded solution
New(shapes) ==
    /\ solution \in Solutions(shapes)
    /\ projectTypeWhitelist \in Whitelists
    /\ forceMDTool \in BOOLEAN
    /\ emptyAllowsAll \in BOOLEAN
    /\ (Len(projectTypeWhitelist) # 0 => emptyAllowsAll)

Init == New(Shapes) /\ Idle /\ plan = NoPlan

\* a call of BuildAllProjects, step by step
Next ==
    \/ \E r \in Requests, p \in {"nil", "edit"}, c \in {"nil", "set"}, o \in Orders :
          BuildAllProjects(r[1], r[2], p, c, o)
    \/ NextProject
    \/ PrepareCommand
    \/ CheckPerformed
    \/ ObserveCommand
    \/ RunCommand
    \/ \E ok \in BOOLEAN : RunReturns(ok)
    \/ BuildReturns

Spec == Init /\ [][Next]_vars

\* the builder over solutions that differ in the types of their projects:
\* a call of CleanAll or of BuildAllProjects, step by step
InitClean == New(CleanShapes) /\ Idle /\ plan = NoPlan

NextClean ==
    \/ \E c \in {"nil", "set"}, o \in Orders : CleanAll(c, o)
    \/ \E answer \in {"exists", "absent", "error"} : StatDir(answer)
    \/ \E ok \in BOOLEAN : RemoveDir(ok)
    \/ CleanReturns
    \/ Next

SpecClean == InitClean /\ [][NextClean]_vars

\* the collection of the outputs, and the build pass, over CollectShapes
InitCollect == New(CollectShapes) /\ Idle /\ plan = NoPlan

NextCollect ==
    \/ \E r \in Requests, o \in Orders : CollectOutput(r[1], r[2], o)
    \/ CollectProject
    \/ \E answer \in ProbeAnswers : ProbeReturns(answer)
    \/ CollectReturns
    \/ Next

SpecCollect == InitCollect /\ [][NextCollect]_vars

\* the planning of the build commands of one project, on its own: the
\* project, its resolved configuration and the request are drawn from
\* PlanInputs, and PlanProject applies the switch of BuildAllProjects
PlanConfigs ==
    {ProjectConfig(c, pl, a, sign) :
        c \in {"Release", "AdHoc"}, pl \in {"iPhone", "AnyCPU", "anycpu", "x86"},
        a \in ArchLists, sign \in BOOLEAN}

PlanInputs ==
    {[state |-> "input", proj |-> Project(1, Shape(t, "exe", TRUE, Mapping, OneConfig(c))),
      projectConfig |-> c, configuration |-> r[1], platform |-> r[2], commands |-> <<>>] :
        t \in ProjectTypes, c \in PlanConfigs, r \in Requests}

InitPlan ==
    /\ solution \in Solutions(<<Shapes[1]>>)
    /\ projectTypeWhitelist = <<>>
    /\ forceMDTool \in BOOLEAN
    /\ emptyAllowsAll = TRUE
    /\ Idle
    /\ plan \in PlanInputs

PlanProject ==
    /\ plan.state = "input"
    /\ plan' = [plan EXCEPT !.state = "planned",
                            !.commands = PlanBuildCommands(plan.proj, plan.projectConfig,
                                            forceMDTool, plan.configuration, plan.platform)]
    /\ UNCHANGED <<builderVars, pc, args, projects, idx, dir, warnings, buildCommands,
                   cmdIdx, perfomedCommands, alreadyPerformed, removed, ret, events,
                   collectVars>>

NextPlan == PlanProject

SpecPlan == InitPlan /\ [][NextPlan]_vars

TypeOK ==
    /\ pc \in {"idle", "project", "prepare", "check", "observe", "run", "running",
               "stat", "remove", "collect", "probe", "done"}
    /\ alreadyPerformed \in BOOLEAN
    /\ idx \in 1..(NumProjects + 1)

(* ------------------------------- claims -------------------------------- *)

InBuild == args.op = "BuildAllProjects"
InClean == args.op = "CleanAll"

EventIdx == 1..Len(events)

\* the projects of the solution
AllProjects == {solution.ProjectMap[i] : i \in ProjectIds}

\* C1: in one BuildAllProjects pass a command equal to one that already ran
\* for another project is observed with alreadyPerformed = TRUE and is not
\* run again: Run is invoked once per class of equal commands.
C1_RunOncePerEqualCommand ==
    InBuild =>
        \A i, j \in EventIdx :
            (/\ i < j
             /\ events[i].project # events[j].project
             /\ events[i].kind = "ran" /\ events[i].flag
             /\ CommandsEqual(events[i].what, events[j].what))
            => /\ events[j].kind # "run"
               /\ (events[j].kind = "observe" => events[j].flag)

\* C2: when Run of a command fails the pass stops at once and returns that
\* error: the failed Run is the last event of the pass.
C2_RunFailureStopsPass ==
    InBuild =>
        /\ \A i \in EventIdx :
              (events[i].kind = "ran" /\ ~events[i].flag)
              => /\ i = Len(events)
                 /\ pc = "done"
                 /\ ret.returned
                 /\ ret.err = "runFailed"
        /\ (ret.err = "runFailed" =>
              /\ Len(events) > 0
              /\ events[Len(events)].kind = "ran"
              /\ ~events[Len(events)].flag)

\* a Run failed while commands or projects were still to come
C2_Witness ==
    /\ InBuild
    /\ pc = "done"
    /\ ret.err = "runFailed"
    /\ cmdIdx < Len(buildCommands)
    /\ idx < Len(projects)

\* C3: every command in perfomedCommands is a command whose Run was invoked
\* and returned success; the command being run is not in the list before
\* its Run returned, and a command whose Run failed is not in the list.
C3_PerformedOnlyAfterSuccess ==
    InBuild =>
        /\ \A k \in 1..Len(perfomedCommands) :
              \E i \in EventIdx :
                  /\ events[i].kind = "ran"
                  /\ events[i].flag
                  /\ events[i].what = perfomedCommands[k]
        /\ Len(perfomedCommands) <= Cardinality({i \in EventIdx :
                                        events[i].kind = "ran" /\ events[i].flag})
        /\ (pc \in {"run", "running"} =>
              ~BuildCommandSliceContains(perfomedCommands, buildCommands[cmdIdx]))
        /\ (ret.err = "runFailed" =>
              ~BuildCommandSliceContains(perfomedCommands, buildCommands[cmdIdx]))

\* a command was performed, and the Run of the next one failed
C3_Witness ==
    /\ InBuild
    /\ Len(perfomedCommands) = 1
    /\ ret.err = "runFailed"
    /\ cmdIdx = 2

\* C4: for every command the pass reaches: the prepare callback, then the
\* already-performed check, then the observe callback with the result of the
\* check, then Run only if the command was not already performed (each
\* callback when the caller gave one).
C4_CommandEventOrder ==
    InBuild =>
        /\ \A i \in EventIdx :
              LET e == events[i]
                  first == i = 1
                  prev == events[i - 1]
                  commandDone ==
                      \/ first
                      \/ prev.kind = "ran" /\ prev.flag
                      \/ prev.kind = "observe" /\ prev.flag
                  prepared ==
                      /\ ~first
                      /\ prev.kind = "prepare"
                      /\ prev.project = e.project
                      /\ CommandsEqual(prev.what, e.what)
                  observed ==
                      /\ ~first
                      /\ prev.kind = "observe"
                      /\ prev.project = e.project
                      /\ prev.what = e.what
                      /\ ~prev.flag
              IN  /\ (e.kind = "prepare" => commandDone)
                  /\ (e.kind = "observe" =>
                        IF args.prepareCallback # "nil" THEN prepared ELSE commandDone)
                  /\ (e.kind = "run" =>
                        IF args.callback # "nil" THEN observed
                        ELSE IF args.prepareCallback # "nil" THEN prepared
                        ELSE commandDone)
                  /\ (e.kind = "ran" =>
                        /\ ~first
                        /\ prev.kind = "run"
                        /\ prev.project = e.project
                        /\ prev.what = e.what)
        \* the positions follow the events
        /\ (pc = "check" /\ args.prepareCallback # "nil" =>
              /\ Len(events) > 0
              /\ events[Len(events)].kind = "prepare")
        /\ (pc = "observe" =>
              alreadyPerformed = BuildCommandSliceContains(perfomedCommands, buildCommands[cmdIdx]))
        /\ (pc \in {"run", "running"} => ~alreadyPerformed)
        /\ (Len(events) > 0 /\ events[Len(events)].kind = "observe" =>
              events[Len(events)].flag = alreadyPerformed)

\* both callbacks given: a command was prepared, observed and then run
C4_Witness ==
    /\ InBuild
    /\ args.prepareCallback # "nil"
    /\ args.callback # "nil"
    /\ Len(events) >= 7
    /\ events[5].kind = "prepare"
    /\ events[6].kind = "observe"
    /\ events[7].kind = "run"

\* the project of the solution with the given name
ProjectNamed(name) == CHOOSE p \in AllProjects : p.Name = name

\* BuildAllProjects is past validateSolutionConfig
Validated ==
    /\ InBuild
    /\ validateSolutionConfig(solution, args.configuration, args.platform)

\* what buildableProjects returned to the running call
Called == buildableProjects(args.order, args.configuration, args.platform)

\* the warnings of a sequence that name the project
WarningsFor(ws, proj) == {k \in 1..Len(ws) : ws[k].project = proj.Name}

\* the events of the project
EventsFor(proj) == {i \in EventIdx : events[i].project = proj.Name}

\* C5: a project of type Unknown is never in the result of filteredProjects
\* or of buildableProjects, never has a command prepared, observed or run by
\* BuildAllProjects and never has a directory handled or removed by
\* CleanAll, even when Unknown is in the whitelist.
C5_UnknownNeverHandled ==
    \* the results of the two functions depend on the builder only, which no
    \* call changes: they are looked at before the call
    /\ (pc = "idle" =>
          /\ \A o \in Orders :
                LET f == filteredProjects(o)
                IN  \A k \in 1..Len(f) : f[k].ProjectType # ProjectTypeUnknown
          /\ \A o \in Orders, r \in Requests :
                LET b == buildableProjects(o, r[1], r[2]).projects
                IN  \A k \in 1..Len(b) : b[k].ProjectType # ProjectTypeUnknown)
    \* the slice the running call ranges over, its events and its removals
    /\ \A k \in 1..Len(projects) : projects[k].ProjectType # ProjectTypeUnknown
    /\ \A i \in EventIdx : ProjectNamed(events[i].project).ProjectType # ProjectTypeUnknown
    /\ \A p \in AllProjects :
          p.ProjectType = ProjectTypeUnknown =>
              /\ DirPth(p, "bin") \notin removed
              /\ DirPth(p, "obj") \notin removed

\* Unknown is in the whitelist, the solution has an Unknown project, and
\* CleanAll removed both directories of the other project and returned
C5_Witness ==
    /\ InClean
    /\ pc = "done"
    /\ ret.err = "nil"
    /\ ProjectTypeUnknown \in Range(projectTypeWhitelist)
    /\ \E p \in AllProjects : p.ProjectType = ProjectTypeUnknown
    /\ Cardinality(removed) = 2

\* an iOS or tvOS project that is not an executable
IsAppleLibrary(proj) ==
    /\ proj.ProjectType \in {ProjectTypeIOS, ProjectTypeTvOS}
    /\ proj.OutputType # "exe"

\* C6 as stated: buildableProjects excludes every iOS or tvOS project whose
\* output type is not "exe" and emits a warning for it, whether or not the
\* type of the project is in the whitelist.
C6_Original ==
    Validated /\ pc # "idle" =>
        \A p \in AllProjects :
            IsAppleLibrary(p) =>
                /\ p \notin Range(Called.projects)
                /\ WarningsFor(Called.warnings, p) # {}

\* C6 as amended: buildableProjects excludes every iOS or tvOS project whose
\* output type is not "exe", whether or not the type of the project is in
\* the whitelist, and emits exactly one warning for it when the whitelist
\* allows its type, and none when it does not.
C6_AppleLibraryExcluded ==
    Validated /\ pc # "idle" =>
        \A p \in AllProjects :
            IsAppleLibrary(p) =>
                /\ p \notin Range(Called.projects)
                /\ p \notin Range(projects)
                /\ Cardinality(WarningsFor(Called.warnings, p)) =
                      IF IsFiltered(p) THEN 1 ELSE 0
                /\ Cardinality(WarningsFor(warnings, p)) =
                      IF IsFiltered(p) THEN 1 ELSE 0

\* a whitelisted tvOS library with a mapping got its warning, and the pass
\* built the other project and returned
C6_Witness ==
    /\ Validated
    /\ pc = "done"
    /\ ret.err = "nil"
    /\ Len(events) > 0
    /\ \E p \in AllProjects :
          /\ p.ProjectType = ProjectTypeTvOS
          /\ IsAppleLibrary(p)
          /\ IsFiltered(p)
          /\ \E k \in 1..Len(ret.warnings) :
                ret.warnings[k] = Warning("notArchivable", p)

\* a whitelisted Android project with a mapping for the requested solution
\* configuration whose application flag is unset
IsAndroidLibrary(proj) ==
    /\ proj.ProjectType = ProjectTypeAndroid
    /\ isProjectTypeAllowed(proj.ProjectType, projectTypeWhitelist, emptyAllowsAll)
    /\ ToConfig(args.configuration, args.platform) \in DOMAIN proj.ConfigMap
    /\ ~proj.AndroidApplication

\* C7: buildableProjects excludes every whitelisted Android project that has
\* a mapping for the requested solution configuration and whose application
\* flag is unset, emits exactly one warning for it, and BuildAllProjects
\* plans no command for it.
C7_AndroidLibraryExcluded ==
    Validated /\ pc # "idle" =>
        \A p \in AllProjects :
            IsAndroidLibrary(p) =>
                /\ p \notin Range(Called.projects)
                /\ Cardinality(WarningsFor(Called.warnings, p)) = 1
                /\ \E k \in 1..Len(Called.warnings) :
                      Called.warnings[k] = Warning("notAndroidApp", p)
                /\ p \notin Range(projects)
                /\ EventsFor(p) = {}

\* the solution has such an Android project, and the pass built the other
\* project and returned
C7_Witness ==
    /\ Validated
    /\ pc = "done"
    /\ ret.err = "nil"
    /\ Len(events) > 0
    /\ \E p \in AllProjects : IsAndroidLibrary(p)

\* a filtered project without an entry for the requested solution
\* configuration in its config mapping
HasNoMapping(proj) ==
    /\ IsFiltered(proj)
    /\ ToConfig(args.configuration, args.platform) \notin DOMAIN proj.ConfigMap

\* the commands the pass plans for a buildable project
PlannedFor(proj) ==
    LET solutionConfig == ToConfig(args.configuration, args.platform)
    IN  IF proj.ConfigMap[solutionConfig] \notin DOMAIN proj.Configs THEN <<>>
        ELSE PlanBuildCommands(proj, proj.Configs[proj.ConfigMap[solutionConfig]],
                               forceMDTool, args.configuration, args.platform)

\* every command planned for the buildable projects ran with success
AllPlannedRan ==
    \A q \in Range(Called.projects) :
        \A c \in Range(PlannedFor(q)) :
            \E i \in EventIdx :
                /\ events[i].kind = "ran"
                /\ events[i].flag
                /\ CommandsEqual(events[i].what, c)

\* the pass did not fail in a command of the project
NoErrorBecauseOf(proj) ==
    ret.err = "runFailed" => events[Len(events)].project # proj.Name

\* C8 as stated: for a filtered project without an entry for the requested
\* solution configuration BuildAllProjects plans and runs no command, returns
\* exactly one warning for it, returns no error because of it, and plans and
\* runs the commands of every other buildable project.
C8_Original ==
    InBuild /\ pc = "done" =>
        \A p \in AllProjects :
            HasNoMapping(p) =>
                /\ EventsFor(p) = {}
                /\ Cardinality(WarningsFor(ret.warnings, p)) = 1
                /\ NoErrorBecauseOf(p)
                /\ AllPlannedRan

\* C8 as amended: when the requested configuration passes validation, for a
\* filtered project without an entry for it BuildAllProjects plans and runs
\* no command, returns exactly one warning for it, returns no error because
\* of it, and, unless the Run of a command fails, plans and runs the
\* commands of every other buildable project.
C8_NoMappingSkipped ==
    Validated /\ pc # "idle" =>
        \A p \in AllProjects :
            HasNoMapping(p) =>
                /\ EventsFor(p) = {}
                /\ p \notin Range(projects)
                /\ Cardinality(WarningsFor(warnings, p)) = 1
                /\ (pc = "done" =>
                      /\ Cardinality(WarningsFor(ret.warnings, p)) = 1
                      /\ ret.warnings[CHOOSE k \in WarningsFor(ret.warnings, p) : TRUE] =
                            Warning("noSolutionConfig", p)
                      /\ NoErrorBecauseOf(p)
                      /\ (ret.err = "nil" => AllPlannedRan))

\* one project has no mapping, and the pass ran the commands of the other
\* project and returned without an error
C8_Witness ==
    /\ Validated
    /\ pc = "done"
    /\ ret.err = "nil"
    /\ \E p \in AllProjects : HasNoMapping(p)
    /\ \E i \in EventIdx : events[i].kind = "ran" /\ events[i].flag

\* the warnings of the loop of BuildAllProjects for the projects of a
\* sequence: one for each project whose mapping names no configuration
RECURSIVE ResolutionWarnings(_)
ResolutionWarnings(projs) ==
    IF Len(projs) = 0 THEN <<>>
    ELSE LET proj == Head(projs)
             solutionConfig == ToConfig(args.configuration, args.platform)
             rest == ResolutionWarnings(Tail(projs))
         IN  IF proj.ConfigMap[solutionConfig] \notin DOMAIN proj.Configs
             THEN <<Warning("noProjectConfig", proj)>> \o rest
             ELSE rest

C10_IOSPlan ==
    (plan.state = "planned" /\ plan.proj.ProjectType \in {ProjectTypeIOS, ProjectTypeTvOS}) =>
        LET cmds == plan.commands
            archivable == isArchitectureArchiveable(plan.projectConfig.MtouchArchs)
        IN  IF forceMDTool
            THEN /\ Len(cmds) = IF archivable THEN 2 ELSE 1
                 /\ \A k \in 1..Len(cmds) : cmds[k].tool = "mdtool"
                 /\ cmds[1].target = "build"
                 /\ (archivable =>
                       /\ cmds[2].target = "archive"
                       /\ cmds[2].configuration = cmds[1].configuration
                       /\ cmds[2].platform = cmds[1].platform
                       /\ cmds[2].projectName = cmds[1].projectName)
            ELSE /\ Len(cmds) = 1
                 /\ cmds[1].tool = "xbuild"
                 /\ cmds[1].target = "Build"
                 /\ cmds[1].buildIpa = archivable
                 /\ cmds[1].archiveOnBuild = archivable

\* a tvOS project with an archivable list planned with the forced toolchain
C10_Witness ==
    /\ plan.state = "planned"
    /\ plan.proj.ProjectType = ProjectTypeTvOS
    /\ forceMDTool
    /\ isArchitectureArchiveable(plan.projectConfig.MtouchArchs)
    /\ Len(plan.commands) = 2

\* C11: for a macOS project, with the forced toolchain the plan is two
\* commands, build then archive, whatever the architecture list is; without
\* the forced toolchain it is one build-engine Build command with
\* archive-on-build set.
C11_MacOSPlan ==
    (plan.state = "planned" /\ plan.proj.ProjectType = ProjectTypeMacOS) =>
        LET cmds == plan.commands
        IN  IF forceMDTool
            THEN /\ Len(cmds) = 2
                 /\ cmds[1].tool = "mdtool" /\ cmds[1].target = "build"
                 /\ cmds[2].tool = "mdtool" /\ cmds[2].target = "archive"
            ELSE /\ Len(cmds) = 1
                 /\ cmds[1].tool = "xbuild"
                 /\ cmds[1].target = "Build"
                 /\ cmds[1].archiveOnBuild

\* a macOS project with an empty architecture list planned with the forced
\* toolchain
C11_Witness ==
    /\ plan.state = "planned"
    /\ plan.proj.ProjectType = ProjectTypeMacOS
    /\ forceMDTool
    /\ plan.projectConfig.MtouchArchs = <<>>
    /\ Len(plan.commands) = 2
    /\ plan.commands[2].target = "archive"

\* C12: for an Android project, with either toolchain, the plan is one
\* build-engine command on the project path, with target SignAndroidPackage
\* when the signing flag is set and PackageForAndroid otherwise, with the
\* configuration of the project, and with the platform set exactly when the
\* platform of the project is not "AnyCPU" in any letter case.
C12_AndroidPlan ==
    (plan.state = "planned" /\ plan.proj.ProjectType = ProjectTypeAndroid) =>
        LET cmds == plan.commands
            cfg == plan.projectConfig
        IN  /\ Len(cmds) = 1
            /\ cmds[1].tool = "xbuild"
            /\ cmds[1].pth = plan.proj.Pth
            /\ cmds[1].pth # SolutionPth
            /\ cmds[1].target = IF cfg.SignAndroid THEN "SignAndroidPackage"
                                ELSE "PackageForAndroid"
            /\ cmds[1].configuration = cfg.Configuration
            /\ cmds[1].platform = IF cfg.Platform \in {"AnyCPU", "anycpu", "ANYCPU"}
                                  THEN "" ELSE cfg.Platform

\* a signed Android project with platform "anycpu" planned with the forced
\* toolchain
C12_Witness ==
    /\ plan.state = "planned"
    /\ plan.proj.ProjectType = ProjectTypeAndroid
    /\ forceMDTool
    /\ plan.projectConfig.SignAndroid
    /\ plan.projectConfig.Platform = "anycpu"
    /\ plan.commands[1].platform = ""
    /\ plan.commands[1].target = "SignAndroidPackage"

\* C18: when the requested configuration is not declared by the solution,
\* BuildAllProjects returns the validation error with an empty sequence of
\* warnings, and no prepare callback, observe callback or Run happens.
C18_InvalidConfigReturnsAtOnce ==
    (InBuild /\ ~validateSolutionConfig(solution, args.configuration, args.platform))
    => /\ pc = "done"
       /\ ret.returned
       /\ ret.err = "invalidSolutionConfig"
       /\ ret.warnings = <<>>
       /\ events = <<>>

\* an undeclared configuration is requested of a solution whose projects
\* would have given warnings
C18_Witness ==
    /\ InBuild
    /\ ~validateSolutionConfig(solution, args.configuration, args.platform)
    /\ Called.warnings # <<>>
    /\ args.prepareCallback # "nil"
    /\ args.callback # "nil"
    /\ ret.err = "invalidSolutionConfig"

\* the commands of the current project that BuildAllProjects dealt with
\* before the current one
EarlierCommands == {k \in 1..Len(buildCommands) : k < cmdIdx}

\* C19: in a BuildAllProjects pass the commands planned for one project are
\* at most two and pairwise unequal, they differ in their target, and the
\* already-performed check of a command never matches a command of the same
\* project.
C19_PlanPairwiseUnequal ==
    InBuild =>
        /\ Len(buildCommands) <= 2
        /\ \A i, j \in 1..Len(buildCommands) :
              i < j => /\ ~CommandsEqual(buildCommands[i], buildCommands[j])
                       /\ buildCommands[i].target # buildCommands[j].target
        /\ (pc = "observe" =>
              /\ \A k \in EarlierCommands :
                    ~CommandsEqual(buildCommands[k], buildCommands[cmdIdx])
              /\ ~ (alreadyPerformed /\ EarlierCommands # {}))
        /\ \A j \in EventIdx :
              (events[j].kind = "observe" /\ events[j].flag) =>
                  \A i \in 1..j :
                      ~ (/\ events[i].kind = "ran"
                         /\ events[i].project = events[j].project
                         /\ CommandsEqual(events[i].what, events[j].what))

\* the check of the second command of a project, after the first one ran
C19_Witness ==
    /\ InBuild
    /\ pc = "observe"
    /\ cmdIdx = 2
    /\ Len(perfomedCommands) = 1
    /\ ~alreadyPerformed

\* the events of a kind about a directory
DirEvents(kind, pth) == {i \in EventIdx : events[i].kind = kind /\ events[i].what = pth}

\* the directory was looked at and exists
FoundDir(pth) == \E i \in DirEvents("stat", pth) : events[i].flag

\* the directory was looked at and does not exist
MissingDir(pth) == \E i \in DirEvents("stat", pth) : ~events[i].flag

\* C15: CleanAll handles projects of a whitelisted type other than Unknown
\* only; it handles bin before obj; for a directory that exists the callback
\* (when one is given) is called exactly once, and then the directory is
\* removed, never before its callback; a directory that does not exist has no
\* callback and no removal; a project with bin and without obj has one
\* callback and only bin removed.
C15_CleanOrder ==
    InClean =>
        /\ \A i \in EventIdx :
              LET proj == ProjectNamed(events[i].project)
              IN  /\ proj.ProjectType # ProjectTypeUnknown
                  /\ isProjectTypeAllowed(proj.ProjectType, projectTypeWhitelist,
                                          emptyAllowsAll)
        /\ \A i, j \in EventIdx :
              (/\ i < j
               /\ events[i].project = events[j].project)
              => ~ (/\ events[i].what = DirPth(ProjectNamed(events[i].project), "obj")
                    /\ events[j].what = DirPth(ProjectNamed(events[i].project), "bin"))
        /\ \A p \in AllProjects, d \in {"bin", "obj"} :
              LET pth == DirPth(p, d)
                  clears == DirEvents("clear", pth)
                  removes == DirEvents("remove", pth)
              IN  /\ Cardinality(DirEvents("stat", pth)) <= 1
                  /\ Cardinality(removes) <= 1
                  /\ FoundDir(pth) =>
                        /\ Cardinality(clears) = IF args.callback # "nil" THEN 1 ELSE 0
                        /\ \A s \in DirEvents("stat", pth), c \in clears : c = s + 1
                        /\ \A c \in clears :
                              IF c = Len(events) THEN pc = "remove"
                              ELSE c + 1 \in removes
                        /\ \A s \in DirEvents("stat", pth) :
                              args.callback = "nil" =>
                                  IF s = Len(events) THEN pc = "remove"
                                  ELSE s + 1 \in removes
                  /\ ~FoundDir(pth) => clears = {} /\ removes = {} /\ pth \notin removed
                  /\ \A r \in removes, c \in clears : c < r
                  /\ pth \in removed => \E r \in removes : events[r].flag
        /\ \A p \in AllProjects :
              (FoundDir(DirPth(p, "bin")) /\ MissingDir(DirPth(p, "obj")))
              => /\ args.callback # "nil" =>
                       Cardinality({i \in EventsFor(p) : events[i].kind = "clear"}) = 1
                 /\ DirPth(p, "obj") \notin removed
                 /\ \A i \in EventsFor(p) :
                       events[i].kind = "remove" => events[i].what = DirPth(p, "bin")

\* a sweep with a callback over a project with bin and without obj, to its end
C15_Witness ==
    /\ InClean
    /\ args.callback # "nil"
    /\ pc = "done"
    /\ ret.err = "nil"
    /\ \E p \in AllProjects :
          /\ FoundDir(DirPth(p, "bin"))
          /\ MissingDir(DirPth(p, "obj"))
          /\ removed = {DirPth(p, "bin")}

\* an existence check or a removal of the sweep failed
SweepFailed(i) ==
    \/ events[i].kind = "statError"
    \/ events[i].kind = "remove" /\ ~events[i].flag

\* C16: when an existence check or a removal fails, CleanAll returns that
\* error at once: the failure is the last thing that happens, and what was
\* removed before it stays removed.
C16_CleanFailureStopsSweep ==
    InClean =>
        \A i \in EventIdx :
            SweepFailed(i) =>
                /\ i = Len(events)
                /\ pc = "done"
                /\ ret.returned
                /\ ret.err = IF events[i].kind = "statError" THEN "statFailed"
                             ELSE "removeFailed"
                /\ \A j \in 1..i :
                      (events[j].kind = "remove" /\ events[j].flag)
                      => events[j].what \in removed
                /\ events[i].what \notin removed

\* the removal of obj of the first of two projects fails after its bin was
\* removed
C16_Witness ==
    /\ InClean
    /\ Len(projects) = 2
    /\ idx = 1
    /\ dir = "obj"
    /\ ret.err = "removeFailed"
    /\ removed = {DirPth(projects[1], "bin")}
    /\ args.callback # "nil"

InCollect == args.op = "CollectOutput"

\* the probes that found a path, as events
FoundProbes == {i \in EventIdx : events[i].kind = "probe" /\ events[i].flag}

\* every key of the map has an inner map with an entry, every entry is a
\* path that is not empty, and it is the path a probe of a project of that
\* type found
MapWellFormed(m) ==
    \A t \in DOMAIN m :
        /\ DOMAIN m[t] # {}
        /\ \A k \in DOMAIN m[t] :
              /\ m[t][k] # ""
              /\ \E i \in FoundProbes :
                    LET proj == ProjectNamed(events[i].project)
                    IN  /\ proj.ProjectType = t
                        /\ proj \in Range(projects)
                        /\ events[i].what = k
                        /\ m[t][k] = FoundPth(proj, k)

\* C13: in the map CollectOutput returns, and in the map it holds after each
\* project (and at every step between), a project type is a key only when
\* its inner map has an entry, every entry is a path that is not empty, and
\* the path was found by a probe of a buildable project of that type.
C13_NoEmptyEntries ==
    InCollect =>
        /\ MapWellFormed(outputMap)
        /\ ret.returned => MapWellFormed(ret.outputMap)

\* the probes of a project of one type found a path and the probes of a
\* project of another type found nothing: one key is returned
C13_Witness ==
    /\ InCollect
    /\ ret.returned
    /\ ret.err = "nil"
    /\ Cardinality(DOMAIN ret.outputMap) = 1
    /\ \E i \in EventIdx :
          /\ events[i].kind = "probe"
          /\ ProjectNamed(events[i].project).ProjectType \notin DOMAIN ret.outputMap

\* the probes CollectOutput makes when none fails, in order, from the k-th
\* project on
RECURSIVE ProbeSchedule(_, _)
ProbeSchedule(ps, k) ==
    IF k > Len(ps) THEN <<>>
    ELSE LET proj == ps[k]
             probes == Probes(proj, forceMDTool)
             own == IF CollectSkips(proj, ToConfig(args.configuration, args.platform))
                    THEN <<>>
                    ELSE [j \in 1..Len(probes) |-> <<proj.Name, probes[j]>>]
         IN  own \o ProbeSchedule(ps, k + 1)

\* C14: a probe that finds nothing gives no error and does not stop the
\* collection: the probes are made in the order of the schedule until one
\* fails or all are made; a probe or a reading of the manifest that fails is
\* the last thing that happens, and CollectOutput returns its error with an
\* empty map, whatever was found before.
C14_OnlyErrorsStopCollection ==
    InCollect =>
        LET schedule == ProbeSchedule(projects, 1)
        IN  /\ Len(events) <= Len(schedule)
            /\ \A i \in EventIdx :
                  /\ events[i].kind \in {"probe", "probeError"}
                  /\ events[i].project = schedule[i][1]
                  /\ events[i].what = schedule[i][2]
                  /\ events[i].kind = "probeError" =>
                        /\ i = Len(events)
                        /\ pc = "done"
                        /\ ret.returned
                        /\ ret.err = ProbeError(events[i].what)
                        /\ ret.outputMap = EmptyMap
                  /\ (events[i].kind = "probe" /\ i = Len(events)) =>
                        /\ pc \in {"probe", "collect", "done"}
                        /\ ret.err = "nil"
                        /\ pc = "probe" => i < Len(schedule)
            /\ ret.returned =>
                  \/ ret.err = "nil" /\ Len(events) = Len(schedule)
                  \/ /\ ret.err # "nil"
                     /\ events # <<>>
                     /\ events[Len(events)].kind = "probeError"

\* after a probe that found nothing and probes that found paths for the
\* first project, a probe of the second project fails
C14_Witness ==
    /\ InCollect
    /\ ret.returned
    /\ ret.err = "probeFailed"
    /\ idx = 2
    /\ outputMap # EmptyMap
    /\ ret.outputMap = EmptyMap
    /\ \E i \in EventIdx : events[i].kind = "probe" /\ ~events[i].flag

\* what the probe of the project answered in the call that returned
AnswerOf(proj, kind) ==
    IF \E i \in FoundProbes : events[i].project = proj.Name /\ events[i].what = kind
    THEN FoundPth(proj, kind)
    ELSE ""

\* the inner map after the probes of the project from the k-th one on, with
\* the answers of the call that returned
RECURSIVE ProbeAll(_, _, _, _)
ProbeAll(proj, probes, k, typeMap) ==
    IF k > Len(probes) THEN typeMap
    ELSE ProbeAll(proj, probes, k + 1,
                  AfterProbe(typeMap, probes[k], AnswerOf(proj, probes[k])))

\* the map of CollectOutput after the projects from the k-th one on, with the
\* answers of the call that returned
RECURSIVE CollectAll(_, _, _)
CollectAll(ps, k, m) ==
    IF k > Len(ps) THEN m
    ELSE LET proj == ps[k]
         IN  IF CollectSkips(proj, ToConfig(args.configuration, args.platform))
             THEN CollectAll(ps, k + 1, m)
             ELSE CollectAll(ps, k + 1,
                     AfterProject(m, proj.ProjectType,
                         ProbeAll(proj, Probes(proj, forceMDTool), 1,
                                  InnerMapAtStart(m, proj.ProjectType))))

\* what CollectOutput returns for the same request and the same answers of
\* the probes when the range over solution.ProjectMap visits the projects in
\* the given order
CollectOutputFor(order) ==
    CollectAll(buildableProjects(order, args.configuration, args.platform).projects,
               1, EmptyMap)

\* C17: the map CollectOutput returns does not depend on the order in which
\* the projects of the solution are visited: with the same solution, request,
\* forced-toolchain flag and answers of the probes, every order gives the map
\* that was returned.
C17_OrderIndependent ==
    (InCollect /\ ret.returned /\ ret.err = "nil") =>
        \A o \in Orders : CollectOutputFor(o) = ret.outputMap

\* a project that is buildable for the request of the call and whose mapping
\* names a project configuration it does not have
MissingProjectConfig(proj) ==
    LET solutionConfig == ToConfig(args.configuration, args.platform)
    IN  /\ proj \in Range(Called.projects)
        /\ solutionConfig \in DOMAIN proj.ConfigMap
        /\ proj.ConfigMap[solutionConfig] \notin DOMAIN proj.Configs

\* the loop of the call went past the project
Handled(proj) == \E k \in 1..Len(projects) : projects[k] = proj /\ k < idx

\* C20: for a buildable project whose mapping names a project configuration
\* it does not have, BuildAllProjects plans no command and calls no callback,
\* appends exactly one warning when it comes to the project and goes on with
\* the next project, with no error because of it; CollectOutput makes no
\* probe for it, adds nothing of it to the map and goes on.
C20_MissingProjectConfigSkipped ==
    \A p \in AllProjects :
        /\ (InBuild /\ MissingProjectConfig(p)) =>
              /\ EventsFor(p) = {}
              /\ Cardinality(WarningsFor(warnings, p)) = IF Handled(p) THEN 1 ELSE 0
              /\ \A k \in WarningsFor(warnings, p) : warnings[k].kind = "noProjectConfig"
              /\ pc \in {"prepare", "check", "observe", "run", "running"}
                    => projects[idx] # p
              /\ ret.returned =>
                    /\ WarningsFor(ret.warnings, p) = WarningsFor(warnings, p)
                    /\ NoErrorBecauseOf(p)
                    /\ ret.err = "nil" => Handled(p) /\ AllPlannedRan
        /\ (InCollect /\ MissingProjectConfig(p)) =>
              /\ EventsFor(p) = {}
              /\ pc = "probe" => projects[idx] # p
              /\ \A t \in DOMAIN outputMap : \A k \in DOMAIN outputMap[t] :
                    outputMap[t][k] # FoundPth(p, k)
              /\ ret.returned =>
                    /\ \A t \in DOMAIN ret.outputMap : \A k \in DOMAIN ret.outputMap[t] :
                          ret.outputMap[t][k] # FoundPth(p, k)
                    /\ ret.err = "nil" =>
                          /\ Handled(p)
                          /\ p.ProjectType \in DOMAIN ret.outputMap =>
                                \E q \in Range(projects) :
                                    /\ q # p
                                    /\ q.ProjectType = p.ProjectType
                                    /\ EventsFor(q) # {}

\* CollectOutput came to a project without its project configuration first,
\* then found the outputs of another project of the same type
C20_Witness ==
    /\ InCollect
    /\ ret.returned
    /\ ret.err = "nil"
    /\ Len(projects) = 2
    /\ MissingProjectConfig(projects[1])
    /\ projects[1].ProjectType \in DOMAIN ret.outputMap
    /\ EventsFor(projects[1]) = {}
    /\ EventsFor(projects[2]) # {}

====
